---- MODULE Spec2Model ----
(***************************************************************************)
(* Model of the Walkaroo travel planner: WalkarooTravelPlanner in          *)
(* travel_plan.py and the Flask handlers of app.py that call it.           *)
(*                                                                         *)
(* Numbers.  Coordinates are grid points on one meridian: a latitude is a  *)
(* whole number of grid steps, one step being an arc of GridKm km, and the *)
(* longitude is 0, so that haversine() is exactly GridKm * |dlat|.  Times  *)
(* are kept in units of 1/TimeScale minute, TimeScale = AVG_SPEED_KMH,     *)
(* which makes (distance / AVG_SPEED_KMH) * 60 a whole number for every    *)
(* whole distance.                                                         *)
(*                                                                         *)
(* Cells.  A spreadsheet cell is [k, v]: k = "num" (a value float() or     *)
(* to_datetime() converts, v the value), "nan" (missing), or "bad" (text   *)
(* that does not convert).                                                 *)
(***************************************************************************)
EXTENDS Integers, Sequences, FiniteSets, TLC

\* ---------------------------------------------------------------- bounds
MaxShops == 3
MaxPos == 4
GridKm == 50
MaxRows == 3
MaxDate == 2
MaxCoordRows == 2
MaxConcRows == 2
MaxFailRows == 2

\* ------------------------------------------------------ program constants
VISIT_TIME_PER_SHOP == 20
TOTAL_BREAK_TIME == 75
AVG_SPEED_KMH == 25
TOTAL_WORKDAY_MINUTES == 9 * 60

TimeScale == AVG_SPEED_KMH
AVAILABLE_TIME == (TOTAL_WORKDAY_MINUTES - TOTAL_BREAK_TIME) * TimeScale
VisitTime == VISIT_TIME_PER_SHOP * TimeScale

VARIABLES data_df, req, map_file
vars == <<data_df, req, map_file>>

\* ------------------------------------------------------------------ cells
Num(x) == [k |-> "num", v |-> x]
NaN == [k |-> "nan", v |-> 0]
Bad == [k |-> "bad", v |-> 0]

isna(c) == c.k = "nan"
notna(c) == ~isna(c)
\* float(c) returns for a number and raises ValueError/TypeError for other text
FloatOk(c) == c.k = "num"
\* pd.to_datetime(..., errors='coerce'): what does not parse becomes NaT
to_datetime(c) == IF c.k = "num" THEN c ELSE NaN

None == "None"
OutletNames == <<"A", "B", "C", "D", "E">>

Abs(x) == IF x < 0 THEN -x ELSE x

\* --------------------------------------------------------------- haversine
haversine(lat1, lon1, lat2, lon2) == GridKm * Abs(lat2 - lat1)

travel_time_of(distance) == (distance * 60 * TimeScale) \div AVG_SPEED_KMH

\* ------------------------------------------------------------ text filters
\* Series.str.contains(re.escape(needle)): needle occurs in hay as a substring
Contains(hay, needle) ==
    \E i \in 1..(Len(hay) + 1) :
        /\ i + Len(needle) - 1 <= Len(hay)
        /\ SubSeq(hay, i, i + Len(needle) - 1) = needle

RECURSIVE Strip(_)
Strip(s) ==
    IF s = <<>> THEN s
    ELSE IF Head(s) = " " THEN Strip(Tail(s))
    ELSE IF s[Len(s)] = " " THEN Strip(SubSeq(s, 1, Len(s) - 1))
    ELSE s

\* re.split(r'\(|-', dealer)[0].strip()
dealer_search_term(dealer) ==
    LET cuts == {i \in 1..Len(dealer) : dealer[i] \in {"(", "-"}}
        stop == IF cuts = {} THEN Len(dealer) + 1
                ELSE CHOOSE i \in cuts : \A j \in cuts : i <= j
    IN Strip(SubSeq(dealer, 1, stop - 1))

market_mask(row, market) == Contains(row.market, market)
dealer_mask(row, dealer) == Contains(row.distributorname, dealer_search_term(dealer))

RECURSIVE Select(_, _, _)
Select(df, market, dealer) ==
    IF df = <<>> THEN <<>>
    ELSE LET rest == Select(Tail(df), market, dealer)
         IN IF market_mask(Head(df), market) /\ dealer_mask(Head(df), dealer)
            THEN <<Head(df)>> \o rest ELSE rest

\* ------------------------------------------------------------ prioritizing
\* nargsort with na_position='first': the NaT rows first, in their order
NaTRows(df) == SelectSeq(df, LAMBDA row : isna(to_datetime(row.last_visited_date)))
DatedRows(df) == SelectSeq(df, LAMBDA row : notna(to_datetime(row.last_visited_date)))

Perms(n) == {p \in [1..n -> 1..n] : \A i, j \in 1..n : p[i] = p[j] => i = j}

\* sort_values is called without kind=, so the dated keys go through
\* ndarray.argsort(kind='quicksort'): ascending, with no order promised among
\* equal keys (numpy partitions, and swaps equal keys, once a run is longer
\* than its insertion-sort cutoff).  The outcomes are every ascending
\* arrangement; the short frames of the model stand for frames of any length.
ArgsortOutcomes(rows) ==
    {p \in Perms(Len(rows)) :
        \A i, j \in 1..Len(rows) :
            i < j => rows[p[i]].last_visited_date.v <= rows[p[j]].last_visited_date.v}

SortValuesOutcomes(df) ==
    {NaTRows(df) \o [i \in 1..Len(DatedRows(df)) |-> DatedRows(df)[p[i]]] :
        p \in ArgsortOutcomes(DatedRows(df))}

RECURSIVE DropDuplicatesFrom(_, _)
DropDuplicatesFrom(df, seen) ==
    IF df = <<>> THEN <<>>
    ELSE IF Head(df).outletname \in seen THEN DropDuplicatesFrom(Tail(df), seen)
    ELSE <<Head(df)>> \o DropDuplicatesFrom(Tail(df), seen \cup {Head(df).outletname})

Reverse(l) == [i \in 1..Len(l) |-> l[Len(l) + 1 - i]]
drop_duplicates_keep_last(df) == Reverse(DropDuplicatesFrom(Reverse(df), {}))

\* drop_duplicates(subset=["outletname"], keep='first')
drop_duplicates(df) == DropDuplicatesFrom(df, {})

\* ------------------------------------------------------------ start point
valid_start_point_df(df) ==
    SelectSeq(df, LAMBDA row : notna(row.salesperson_latitude)
                               /\ notna(row.salesperson_longitude))

\* ------------------------------------------------------------- data prep
ShopOf(row) ==
    [shop |-> row.outletname, lat |-> row.latitude.v, lon |-> row.longitude.v,
     last_visit |-> row.last_visited_date]

RECURSIVE shop_distances_until_bad(_)
shop_distances_until_bad(df) ==
    IF df = <<>> THEN <<>>
    ELSE LET row == Head(df)
         IN IF isna(row.latitude) \/ isna(row.longitude)
            THEN shop_distances_until_bad(Tail(df))
            ELSE IF FloatOk(row.latitude) /\ FloatOk(row.longitude)
                 THEN <<ShopOf(row)>> \o shop_distances_until_bad(Tail(df))
            ELSE <<>>

RECURSIVE shop_distances_of(_)
shop_distances_of(df) ==
    IF df = <<>> THEN <<>>
    ELSE LET row == Head(df)
             rest == shop_distances_of(Tail(df))
         IN IF isna(row.latitude) \/ isna(row.longitude) THEN rest
            ELSE IF FloatOk(row.latitude) /\ FloatOk(row.longitude)
                 THEN <<ShopOf(row)>> \o rest
            ELSE rest

\* ---------------------------------------------------------- route building
NoShop == [shop |-> None, lat |-> 0, lon |-> 0, last_visit |-> NaN]

DistanceTo(shop, lat, lon) == haversine(lat, lon, shop.lat, shop.lon)

\* min(unvisited, key=...): a left-to-right scan that replaces the best so far
\* only by a strictly smaller key
RECURSIVE min_scan_last(_, _, _, _)
min_scan_last(rest, best, lat, lon) ==
    IF rest = <<>> THEN best
    ELSE min_scan_last(Tail(rest),
                       IF DistanceTo(Head(rest), lat, lon) <= DistanceTo(best, lat, lon)
                       THEN Head(rest) ELSE best,
                       lat, lon)

RECURSIVE min_scan(_, _, _, _)
min_scan(rest, best, lat, lon) ==
    IF rest = <<>> THEN best
    ELSE min_scan(Tail(rest),
                  IF DistanceTo(Head(rest), lat, lon) < DistanceTo(best, lat, lon)
                  THEN Head(rest) ELSE best,
                  lat, lon)

nearest_of(unvisited, lat, lon) == min_scan(Tail(unvisited), Head(unvisited), lat, lon)

\* list.remove(x): drops the first element equal to x
list_remove_nothing(l, x) == l

RECURSIVE list_remove(_, _)
list_remove(l, x) ==
    IF l = <<>> THEN l
    ELSE IF Head(l) = x THEN Tail(l)
    ELSE <<Head(l)>> \o list_remove(Tail(l), x)

loop_condition(q) == q.unvisited # <<>> /\ q.time_used < AVAILABLE_TIME

fits_ignoring_stop(time_used, time_for_this_stop) == time_used <= AVAILABLE_TIME

fits(time_used, time_for_this_stop) == time_used + time_for_this_stop <= AVAILABLE_TIME

Stop(shop, distance, travel) ==
    [shop |-> shop.shop, lat |-> shop.lat, lon |-> shop.lon,
     last_visit |-> shop.last_visit,
     distance_from_previous |-> distance,
     travel_time_from_previous |-> travel]

commit(q, shop, distance, travel) ==
    [q EXCEPT !.time_used = @ + travel + VisitTime,
              !.route = Append(@, Stop(shop, distance, travel)),
              !.unvisited = list_remove(@, shop),
              !.current_lat = shop.lat,
              !.current_lon = shop.lon,
              !.nearest_shop = shop,
              !.iterations = @ + 1]

no_fit_skip(q, shop) ==
    [q EXCEPT !.unvisited = list_remove(@, shop),
              !.nearest_shop = shop, !.iterations = @ + 1]

\* else: break
no_fit(q, shop) ==
    [q EXCEPT !.pc = "report", !.nearest_shop = shop, !.iterations = @ + 1]

loop_body(q) ==
    LET nearest_shop == nearest_of(q.unvisited, q.current_lat, q.current_lon)
        distance_to_shop == DistanceTo(nearest_shop, q.current_lat, q.current_lon)
        travel_time == travel_time_of(distance_to_shop)
        time_for_this_stop == travel_time + VisitTime
    IN IF fits(q.time_used, time_for_this_stop)
       THEN commit(q, nearest_shop, distance_to_shop, travel_time)
       ELSE no_fit(q, nearest_shop)

\* ------------------------------------------------------------- reporting
FormatterOutcomes == {"ok", "empty", "blocked", "api_error"}
FormatterFailures == {"blocked", "api_error"}
BlockedText == "Report generation failed because the content was blocked by safety filters. Please check the data for any sensitive information."
ApiErrorText == "Could not generate the final report due to an API error. This is often caused by exceeding the daily usage quota. Please try again later or check your API plan."
FailureTexts == {BlockedText, ApiErrorText}

gpt_route_of_silent(outcome) == IF outcome = "ok" THEN "REPORT" ELSE ""

gpt_route_of(outcome) ==
    CASE outcome = "ok" -> "REPORT"
      [] outcome = "empty" -> ""
      [] outcome = "blocked" -> BlockedText
      [] outcome = "api_error" -> ApiErrorText

route_points_of(lat, lon, route) ==
    <<<<lat, lon>>>> \o [i \in 1..Len(route) |-> <<route[i].lat, route[i].lon>>]
                    \o <<<<lat, lon>>>>

\* the page folium saves: the start marker, one marker per stop, the polyline
MapHtml(lat, lon, route) ==
    [location |-> <<lat, lon>>,
     markers |-> [i \in 1..Len(route) |-> route[i].shop],
     polyline |-> route_points_of(lat, lon, route)]

NoMap == [location |-> <<>>, markers |-> <<>>, polyline |-> <<>>]

map_path == "static/route_map.html"
map_url_of(path) == "/" \o path

retailers_json_of(lat, lon, route) ==
    <<[name |-> "Salesperson Start/End", lat |-> lat, lng |-> lon, type |-> "start"]>>
    \o [i \in 1..Len(route) |->
          [name |-> route[i].shop, lat |-> route[i].lat, lng |-> route[i].lon,
           type |-> "shop"]]

\* return None, None, None
NoneResult == [route_text |-> None, map_url |-> None, retailers_json |-> <<>>]
NoResponse == [status |-> 0, route_plan |-> None, map_url |-> None, retailers |-> <<>>]

\* ------------------------------------------------------------------ state
NewRequest(market, dealer) ==
    [pc |-> "filter", market |-> market, dealer |-> dealer,
     final_df |-> <<>>, working_df |-> <<>>, selected_shops_df |-> <<>>,
     salesperson_lat |-> 0, salesperson_lon |-> 0,
     shop_distances |-> <<>>, unvisited |-> <<>>, route |-> <<>>,
     current_lat |-> 0, current_lon |-> 0, time_used |-> 0,
     nearest_shop |-> NoShop, iterations |-> 0,
     outcome |-> None, gpt_route |-> None,
     ret |-> None, result |-> NoneResult,
     response |-> NoResponse, fetched |-> NoMap]

Requests == DOMAIN req

ReturnNone(q, line) == [q EXCEPT !.pc = "returned", !.ret = line, !.result = NoneResult]

Row(i, name, market, dealer, lat, lon, date, splat, splon) ==
    [idx |-> i, outletname |-> name, market |-> market, distributorname |-> dealer,
     latitude |-> lat, longitude |-> lon, last_visited_date |-> date,
     salesperson_latitude |-> splat, salesperson_longitude |-> splon]

\* ---------------------------------------------------------------- actions
\* plan_optimal_route, lines 112-132: filter the catalog by market and dealer
Filter(r) ==
    /\ req[r].pc = "filter"
    /\ LET q == req[r]
           final_df == Select(data_df, q.market, q.dealer)
       IN req' = [req EXCEPT ![r] =
                    IF final_df = <<>> THEN ReturnNone(q, "L132")
                    ELSE [q EXCEPT !.pc = "prioritize", !.final_df = final_df]]
    /\ UNCHANGED <<data_df, map_file>>

\* lines 135-149: sort by last visit, keep the first record of each outlet name
Prioritize(r) ==
    /\ req[r].pc = "prioritize"
    /\ \E working_df \in SortValuesOutcomes(req[r].final_df) :
         LET q == req[r]
             selected_shops_df == drop_duplicates(working_df)
         IN req' = [req EXCEPT ![r] =
                      IF selected_shops_df = <<>>
                      THEN ReturnNone([q EXCEPT !.working_df = working_df], "L149")
                      ELSE [q EXCEPT !.pc = "locate_start",
                                     !.working_df = working_df,
                                     !.selected_shops_df = selected_shops_df]]
    /\ UNCHANGED <<data_df, map_file>>

\* lines 151-172: the start point
LocateStart(r) ==
    /\ req[r].pc = "locate_start"
    /\ LET q == req[r]
           valid == valid_start_point_df(q.selected_shops_df)
       IN req' = [req EXCEPT ![r] =
                    IF valid = <<>> THEN ReturnNone(q, "L159")
                    ELSE IF FloatOk(valid[1].salesperson_latitude)
                            /\ FloatOk(valid[1].salesperson_longitude)
                         THEN [q EXCEPT !.pc = "prepare",
                                        !.salesperson_lat = valid[1].salesperson_latitude.v,
                                        !.salesperson_lon = valid[1].salesperson_longitude.v]
                    ELSE ReturnNone(q, "L172")]
    /\ UNCHANGED <<data_df, map_file>>

\* lines 174-196 and the entry of _find_route_for_9_hours, lines 74-80
PrepareShops(r) ==
    /\ req[r].pc = "prepare"
    /\ LET q == req[r]
           shop_distances == shop_distances_of(q.selected_shops_df)
       IN req' = [req EXCEPT ![r] =
                    IF shop_distances = <<>> THEN ReturnNone(q, "L196")
                    ELSE [q EXCEPT !.pc = "loop",
                                   !.shop_distances = shop_distances,
                                   !.unvisited = shop_distances,
                                   !.route = <<>>,
                                   !.current_lat = q.salesperson_lat,
                                   !.current_lon = q.salesperson_lon,
                                   !.time_used = 0]]
    /\ UNCHANGED <<data_df, map_file>>

\* one test of the while condition and, when it holds, one pass of the body
RouteStep(r) ==
    /\ req[r].pc = "loop"
    /\ req' = [req EXCEPT ![r] =
                 IF loop_condition(req[r]) THEN loop_body(req[r])
                 ELSE [req[r] EXCEPT !.pc = "report"]]
    /\ UNCHANGED <<data_df, map_file>>

\* lines 280-292: the external formatter returns text, or raises
Format(r) ==
    /\ req[r].pc = "report"
    /\ \E outcome \in FormatterOutcomes :
         req' = [req EXCEPT ![r] = [@ EXCEPT !.pc = "map",
                                             !.outcome = outcome,
                                             !.gpt_route = gpt_route_of(outcome)]]
    /\ UNCHANGED <<data_df, map_file>>

\* lines 295-331: save the map page and return the three results
SaveMapAndReturn(r) ==
    /\ req[r].pc = "map"
    /\ LET q == req[r] IN
         /\ map_file' = MapHtml(q.salesperson_lat, q.salesperson_lon, q.route)
         /\ req' = [req EXCEPT ![r] =
                      [q EXCEPT !.pc = "returned",
                                !.ret = "L331",
                                !.result =
                                   [route_text |-> q.gpt_route,
                                    map_url |-> map_url_of(map_path),
                                    retailers_json |->
                                       retailers_json_of(q.salesperson_lat,
                                                         q.salesperson_lon, q.route)]]]
    /\ UNCHANGED data_df

\* app.py api_plan_route, lines 75-86 (index, lines 33-50, decides alike)
falsy(text) == text = None \/ text = ""

response_of(result) ==
    IF falsy(result.route_text)
    THEN [status |-> 404, route_plan |-> None, map_url |-> None, retailers |-> <<>>]
    ELSE [status |-> 200, route_plan |-> result.route_text,
          map_url |-> result.map_url, retailers |-> result.retailers_json]

Respond(r) ==
    /\ req[r].pc = "returned"
    /\ req' = [req EXCEPT ![r] = [@ EXCEPT !.pc = "responded",
                                          !.response = response_of(req[r].result)]]
    /\ UNCHANGED <<data_df, map_file>>

\* the client loads the page its response names
FetchMap(r) ==
    /\ req[r].pc = "responded"
    /\ req[r].response.status = 200
    /\ req' = [req EXCEPT ![r] = [@ EXCEPT !.pc = "fetched", !.fetched = map_file]]
    /\ UNCHANGED <<data_df, map_file>>

Next ==
    \/ \E r \in Requests : Filter(r)
    \/ \E r \in Requests : Prioritize(r)
    \/ \E r \in Requests : LocateStart(r)
    \/ \E r \in Requests : PrepareShops(r)
    \/ \E r \in Requests : RouteStep(r)
    \/ \E r \in Requests : Format(r)
    \/ \E r \in Requests : SaveMapAndReturn(r)
    \/ \E r \in Requests : Respond(r)
    \/ \E r \in Requests : FetchMap(r)

\* ------------------------------------------------------------ catalogs
MarketN == <<"n">>
MarketS == <<"s">>
DealerD == <<"d">>

\* every outlet routable, the positions and the start free
RouteCatalog(n, lats, start) ==
    [i \in 1..n |->
       Row(i, OutletNames[i], MarketN, DealerD, Num(lats[i]), Num(0), NaN,
           Num(start), Num(0))]

DateCells == {NaN, Bad} \cup {Num(d) : d \in 1..MaxDate}

\* names and last-visited dates free
PrioCatalog(n, names, dates) ==
    [i \in 1..n |->
       Row(i, names[i], MarketN, DealerD, Num(i % 2), Num(0), dates[i],
           Num(0), Num(0))]

CoordPairs == {<<Num(1), Num(0)>>, <<NaN, Num(0)>>, <<Num(1), NaN>>,
               <<Bad, Num(0)>>, <<Num(1), Bad>>}
StartPairs == {<<Num(0), Num(0)>>, <<NaN, Num(0)>>, <<Num(0), NaN>>,
               <<Bad, Num(0)>>, <<Num(0), Bad>>}

\* the salesperson latitude of row i, when it is a number, is i
StartCell(c, i) == IF c.k = "num" THEN Num(i) ELSE c

\* outlet and salesperson coordinates free: present, missing or not numbers
CoordCatalog(n, xy, sp) ==
    [i \in 1..n |->
       Row(i, OutletNames[i], MarketN, DealerD, xy[i][1], xy[i][2], NaN,
           StartCell(sp[i][1], i), sp[i][2])]

\* two markets
ConcCatalog(n, markets, lats) ==
    [i \in 1..n |->
       Row(i, OutletNames[i], markets[i], DealerD, Num(lats[i]), Num(0), NaN,
           Num(0), Num(0))]

RequestInputs == {<<MarketN, DealerD>>, <<MarketS, <<"d", " ", "(", "x">>>>}

OneRequest == <<NewRequest(MarketN, DealerD)>>

Init ==
    /\ \E n \in 1..MaxShops : \E lats \in [1..n -> 0..MaxPos] : \E start \in 0..MaxPos :
         data_df = RouteCatalog(n, lats, start)
    /\ req = OneRequest
    /\ map_file = NoMap

InitPrio ==
    /\ \E n \in 1..MaxRows :
         \E names \in [1..n -> {"A", "B"}] : \E dates \in [1..n -> DateCells] :
            data_df = PrioCatalog(n, names, dates)
    /\ req = OneRequest
    /\ map_file = NoMap

InitCoords ==
    /\ \E n \in 1..MaxCoordRows :
         \E xy \in [1..n -> CoordPairs] : \E sp \in [1..n -> StartPairs] :
            data_df = CoordCatalog(n, xy, sp)
    /\ req = OneRequest
    /\ map_file = NoMap

InitConc ==
    /\ \E n \in 1..MaxConcRows :
         \E markets \in [1..n -> {MarketN, MarketS}] : \E lats \in [1..n -> 0..1] :
            data_df = ConcCatalog(n, markets, lats)
    /\ \E a \in RequestInputs : \E b \in RequestInputs \ {a} :
         req = <<NewRequest(a[1], a[2]), NewRequest(b[1], b[2])>>
    /\ map_file = NoMap

Spec == Init /\ [][Next]_vars
SpecPrio == InitPrio /\ [][Next]_vars
SpecCoords == InitCoords /\ [][Next]_vars
SpecConc == InitConc /\ [][Next]_vars

\* catalogs on which a request can end without a route for each cause: the
\* outlet latitude and the salesperson latitude are numbers, missing or text
FailCells(x) == {Num(x), NaN, Bad}

FailCatalog(n, lats, splats) ==
    [i \in 1..n |->
       Row(i, OutletNames[i], MarketN, DealerD, lats[i], Num(0), NaN,
           splats[i], Num(0))]

\* a matching request, one whose market and one whose dealer matches no row
FailInputs == {<<MarketN, DealerD>>, <<MarketS, DealerD>>, <<MarketN, <<"e">>>>}

InitFail ==
    /\ \E n \in 1..MaxFailRows :
         \E lats \in [1..n -> FailCells(1)] : \E splats \in [1..n -> FailCells(0)] :
            data_df = FailCatalog(n, lats, splats)
    /\ \E a \in FailInputs : \E b \in FailInputs :
         req = <<NewRequest(a[1], a[2]), NewRequest(b[1], b[2])>>
    /\ map_file = NoMap

SpecFail == InitFail /\ [][Next]_vars

\* ===================================================== route builder claims
\* the point the i-th stop of the route was reached from
PreviousPoint(q, i) ==
    IF i = 1 THEN <<q.salesperson_lat, q.salesperson_lon>>
    ELSE <<q.route[i - 1].lat, q.route[i - 1].lon>>

StepCost(q, i) ==
    travel_time_of(haversine(PreviousPoint(q, i)[1], PreviousPoint(q, i)[2],
                             q.route[i].lat, q.route[i].lon)) + VisitTime

RECURSIVE SumStepCost(_, _)
SumStepCost(q, n) == IF n = 0 THEN 0 ELSE SumStepCost(q, n - 1) + StepCost(q, n)

\* C1: in every state of the route-building loop and after it, the committed
\* stops' travel time from the previous point plus visit time sum to at most
\* TOTAL_WORKDAY_MINUTES - TOTAL_BREAK_TIME (465 minutes)
C1_BudgetNeverExceeded ==
    \A r \in Requests :
        SumStepCost(req[r], Len(req[r].route))
            <= (TOTAL_WORKDAY_MINUTES - TOTAL_BREAK_TIME) * TimeScale

\* a route of two stops that left a candidate out
C1_Witness ==
    \E r \in Requests :
        /\ req[r].pc = "report"
        /\ Len(req[r].route) >= 2
        /\ req[r].unvisited # <<>>

InputPos(q, shop) == CHOOSE k \in 1..Len(q.shop_distances) : q.shop_distances[k] = shop

IsFirstNearest(q, shop) ==
    \E i \in 1..Len(q.unvisited) :
        /\ q.unvisited[i] = shop
        /\ \A j \in 1..Len(q.unvisited) :
             LET dj == DistanceTo(q.unvisited[j], q.current_lat, q.current_lon)
                 di == DistanceTo(shop, q.current_lat, q.current_lon)
             IN /\ dj >= di
                /\ dj = di => InputPos(q, q.unvisited[j]) >= InputPos(q, shop)

\* C2: the candidate an iteration considers is at minimum distance from the
\* current point among the remaining candidates, and among those at that
\* distance it is the first of the input order; a committed stop is that one
C2_NearestFirstInInputOrder ==
    [][\A r \in Requests :
          (req[r].pc = "loop" /\ req'[r].iterations = req[r].iterations + 1)
          => /\ IsFirstNearest(req[r], req'[r].nearest_shop)
             /\ Len(req'[r].route) > Len(req[r].route)
                => req'[r].route[Len(req'[r].route)].shop = req'[r].nearest_shop.shop]_vars

\* the last stop was chosen while another candidate, elsewhere, was as near
C2_Witness ==
    \E r \in Requests :
        LET q == req[r]
            n == Len(q.route)
        IN /\ n >= 1
           /\ \E j \in 1..Len(q.unvisited) :
                /\ q.unvisited[j].lat # q.route[n].lat
                /\ haversine(PreviousPoint(q, n)[1], PreviousPoint(q, n)[2],
                             q.unvisited[j].lat, q.unvisited[j].lon)
                   = q.route[n].distance_from_previous

MinDistance(q) ==
    LET ds == {DistanceTo(q.unvisited[j], q.current_lat, q.current_lon) :
                 j \in 1..Len(q.unvisited)}
    IN CHOOSE d \in ds : \A e \in ds : d <= e

NearestMisfits(q) ==
    /\ q.pc = "loop"
    /\ q.unvisited # <<>>
    /\ q.time_used < AVAILABLE_TIME
    /\ q.time_used + travel_time_of(MinDistance(q)) + VisitTime > AVAILABLE_TIME

StopNames(route) == [i \in 1..Len(route) |-> route[i].shop]

\* C3: when the nearest candidate does not fit the loop ends at once with the
\* route as it is, no stop is committed outside the loop, and the route
\* returned is the stops committed until then
C3_LoopEndsAtFirstMisfit ==
    [][\A r \in Requests :
          /\ NearestMisfits(req[r])
             => (req'[r].pc = "report" /\ req'[r].route = req[r].route)
          /\ req[r].pc # "loop" => req'[r].route = req[r].route
          /\ req'[r].ret = "L331"
             => [i \in 1..Len(req'[r].route) |->
                   req'[r].result.retailers_json[i + 1].name]
                = StopNames(req'[r].route)]_vars

\* the loop was left by its break with candidates remaining, and returned
C3_Witness ==
    \E r \in Requests :
        /\ req[r].ret = "L331"
        /\ req[r].unvisited # <<>>
        /\ req[r].time_used < AVAILABLE_TIME
        /\ Len(req[r].result.retailers_json) = 1 + Len(req[r].route)

\* C4: the loop body runs at most n times for n candidates, each pass that
\* stays in the loop having removed exactly one candidate
C4_AtMostNIterations ==
    \A r \in Requests :
        /\ req[r].iterations <= Len(req[r].shop_distances)
        /\ req[r].pc = "loop"
           => req[r].iterations + Len(req[r].unvisited) = Len(req[r].shop_distances)

\* all n passes ran
C4_Witness ==
    \E r \in Requests :
        /\ req[r].pc = "report"
        /\ Len(req[r].shop_distances) >= 2
        /\ req[r].iterations = Len(req[r].shop_distances)

\* ========================================================= pipeline claims
Returned(q) == q.pc \in {"returned", "responded", "fetched"}
StartLocated(q) == q.selected_shops_df # <<>> /\ q.pc # "locate_start"

StartUsable(row) ==
    FloatOk(row.salesperson_latitude) /\ FloatOk(row.salesperson_longitude)

\* C5: the start is the first outlet of the prioritized list whose salesperson
\* coordinates are both present and convertible, outlets before it whose values
\* do not convert being passed over; no start only when there is no such outlet
C5_FirstConvertibleStart ==
    \A r \in Requests :
        StartLocated(req[r]) =>
            LET usable == SelectSeq(req[r].selected_shops_df, StartUsable)
            IN IF usable = <<>> THEN req[r].ret \in {"L159", "L172"}
               ELSE /\ req[r].ret \notin {"L159", "L172"}
                    /\ req[r].salesperson_lat = usable[1].salesperson_latitude.v
                    /\ req[r].salesperson_lon = usable[1].salesperson_longitude.v

\* C6: when the formatter fails the request still returns from line 331: a
\* marked failure text, the map URL and the start followed by every stop in
\* visiting order, and the handler answers 200 with them
C6_FormatterFailureKeepsResults ==
    \A r \in Requests :
        (req[r].outcome \in FormatterFailures /\ Returned(req[r])) =>
            LET q == req[r]
                res == q.result
            IN /\ q.ret = "L331"
               /\ res.route_text \in FailureTexts
               /\ res.route_text # ""
               /\ res.map_url = "/static/route_map.html"
               /\ Len(res.retailers_json) = 1 + Len(q.route)
               /\ res.retailers_json[1].type = "start"
               /\ res.retailers_json[1].lat = q.salesperson_lat
               /\ res.retailers_json[1].lng = q.salesperson_lon
               /\ \A i \in 1..Len(q.route) :
                    /\ res.retailers_json[i + 1].name = q.route[i].shop
                    /\ res.retailers_json[i + 1].lat = q.route[i].lat
                    /\ res.retailers_json[i + 1].lng = q.route[i].lon
               /\ q.pc \in {"responded", "fetched"}
                  => /\ q.response.status = 200
                     /\ q.response.route_plan = res.route_text
                     /\ q.response.map_url = res.map_url
                     /\ q.response.retailers = res.retailers_json

\* a blocked prompt, answered with a route of two stops
C6_Witness ==
    \E r \in Requests :
        /\ req[r].outcome = "blocked"
        /\ req[r].pc = "responded"
        /\ Len(req[r].route) >= 2

\* C7: the page a request's map URL serves shows that request's own route
C7_MapShowsOwnRoute ==
    \A r \in Requests :
        req[r].pc = "fetched" =>
            /\ req[r].fetched.location = <<req[r].salesperson_lat, req[r].salesperson_lon>>
            /\ req[r].fetched.markers = StopNames(req[r].route)

DateKey(row) ==
    IF row.last_visited_date.k = "num" THEN row.last_visited_date.v ELSE 0

Prioritized(q) == q.working_df # <<>>

\* C8: the sorted frame is ascending by last-visited date with missing and
\* unparseable dates first, and rows with equal dates (or both without a date)
\* keep the order they had in the filtered frame
C8_SortAscendingAndStable ==
    \A r \in Requests :
        Prioritized(req[r]) =>
            LET w == req[r].working_df
            IN \A i, j \in 1..Len(w) :
                 i < j => /\ DateKey(w[i]) <= DateKey(w[j])
                          /\ DateKey(w[i]) = DateKey(w[j]) => w[i].idx < w[j].idx

\* C9: every outlet name of the filtered frame occurs exactly once in the
\* candidates, its record being the first of that name in the sorted frame,
\* which has the earliest date of the name; no name occurs twice in a route
C9_OneRecordPerNameEarliest ==
    \A r \in Requests :
        (Prioritized(req[r]) /\ req[r].pc # "prioritize") =>
            LET q == req[r]
                sel == q.selected_shops_df
                w == q.working_df
            IN /\ \A i, j \in 1..Len(sel) :
                    sel[i].outletname = sel[j].outletname => i = j
               /\ {sel[i].outletname : i \in 1..Len(sel)}
                  = {q.final_df[i].outletname : i \in 1..Len(q.final_df)}
               /\ \A i \in 1..Len(sel) :
                    /\ \E k \in 1..Len(w) :
                         /\ w[k] = sel[i]
                         /\ \A j \in 1..(k - 1) : w[j].outletname # sel[i].outletname
                    /\ \A j \in 1..Len(q.final_df) :
                         q.final_df[j].outletname = sel[i].outletname
                         => DateKey(sel[i]) <= DateKey(q.final_df[j])
               /\ \A i, j \in 1..Len(q.route) :
                    q.route[i].shop = q.route[j].shop => i = j

\* the record kept for a name came after a dropped record of that name in the
\* input, and the route is built
C9_Witness ==
    \E r \in Requests :
        /\ req[r].pc = "report"
        /\ \E i \in 1..Len(req[r].selected_shops_df) :
             \E j \in 1..Len(req[r].final_df) :
                /\ req[r].final_df[j].outletname = req[r].selected_shops_df[i].outletname
                /\ req[r].final_df[j].idx < req[r].selected_shops_df[i].idx

OutletUsable(row) == FloatOk(row.latitude) /\ FloatOk(row.longitude)

Prepared(q) == q.pc \in {"loop", "report", "map"} \/ q.ret \in {"L196", "L331"}

\* C10: the routing candidates are exactly the prioritized outlets whose
\* latitude and longitude are both present and numeric, in prioritized order;
\* the request ends without a route at line 196 only when there is none
C10_BadOutletsSkipped ==
    \A r \in Requests :
        Prepared(req[r]) =>
            LET q == req[r]
                usable == SelectSeq(q.selected_shops_df, OutletUsable)
            IN /\ q.ret = "L196" <=> usable = <<>>
               /\ q.ret # "L196"
                  => /\ Len(q.shop_distances) = Len(usable)
                     /\ \A i \in 1..Len(usable) :
                          /\ q.shop_distances[i].shop = usable[i].outletname
                          /\ q.shop_distances[i].lat = usable[i].latitude.v
                          /\ q.shop_distances[i].lon = usable[i].longitude.v
               /\ (q.pc = "loop" /\ q.iterations = 0) => q.unvisited = q.shop_distances

\* an outlet with a non-numeric coordinate precedes one that is routed
C10_Witness ==
    \E r \in Requests :
        /\ req[r].ret = "L331"
        /\ Len(req[r].route) >= 1
        /\ \E i \in 1..Len(req[r].selected_shops_df) :
             /\ "bad" \in {req[r].selected_shops_df[i].latitude.k,
                           req[r].selected_shops_df[i].longitude.k}
             /\ \E j \in (i + 1)..Len(req[r].selected_shops_df) :
                  req[r].selected_shops_df[j].outletname = req[r].route[1].shop

\* ============================================================ no-route claim
NoRoute(q) == Returned(q) /\ q.ret # "L331"

\* why the request ended without a route, read off the catalog and the return
\* statement that was taken
Cause(q) ==
    CASE q.ret = "L132" ->
           IF \A i \in 1..Len(data_df) : ~market_mask(data_df[i], q.market)
           THEN "no-market-match" ELSE "no-dealer-match"
      [] q.ret \in {"L159", "L172"} -> "no-valid-start-point"
      [] q.ret = "L196" -> "no-candidates-with-coordinates"
      [] OTHER -> "no-candidates"

\* C11: two requests that end without a route for different causes (no market
\* match, no dealer match, no valid start point, no candidates with
\* coordinates) return results that differ, i.e. that carry the cause
C11_NoRouteResultsTellCauses ==
    \A r1, r2 \in Requests :
        (NoRoute(req[r1]) /\ NoRoute(req[r2]) /\ Cause(req[r1]) # Cause(req[r2]))
        => req[r1].result # req[r2].result

====
